---- MODULE Spec2Model ----
(***************************************************************************)
(* A model of the reminder engine of the Telegram reminder bot:            *)
(*   database.py   the reminders table and its point queries/updates       *)
(*   scheduler.py  check_reminders (the periodic pass), send_reminder,     *)
(*                 send_follow_up, recover_pending_reminders               *)
(*   handlers.py   /done, /delete, the yes/no reply handlers               *)
(*   bot.py        start-up order (post_init runs the recovery)            *)
(*                                                                         *)
(* Time is in seconds since 1970-01-01T00:00:00Z (datetime.utcnow()).      *)
(* The clock of the model advances in steps of one hour and reminders are   *)
(* scheduled on the hour or on the half hour, so each comparison of the    *)
(* code (30 minutes, 2 hours) is exercised below, at and above its         *)
(* threshold.                                                              *)
(*                                                                         *)
(* Calls that leave the process can fail: bot.send_message raises          *)
(* (DeliveryFailure) and a store write raises (sqlite error).  Both are    *)
(* nondeterministic outcomes of the step that makes the call.  Store reads *)
(* are taken to succeed.                                                   *)
(***************************************************************************)
EXTENDS Integers, Sequences, FiniteSets, TLC

VARIABLES
    reminders,            \* the reminders table: id -> row
    nextId,               \* AUTOINCREMENT: the id the next INSERT gets
    now,                  \* datetime.utcnow(), seconds
    proc,                 \* "up" | "down": the bot process
    pc,                   \* check_reminders: "idle" | "initial" | "followup" | "done"
    pass_now,             \* `now` as read at the top of the running pass
    pending_reminders,    \* rows the running pass has still to give to send_reminder
    follow_up_reminders,  \* rows the running pass has still to give to send_follow_up
    notified,             \* the messages that reached a chat, for the rows and the
                          \* occurrences the table still holds: [id, kind, sched]
    passLog,              \* what the running pass has done so far: <<[id, kind, res]>>
    sent,                 \* what the step just taken tried to send or to write:
                          \* <<[id, kind, res]>>, empty after any other step
    stops                 \* how often the process has stopped

vars == <<reminders, nextId, now, proc, pc, pass_now, pending_reminders,
          follow_up_reminders, notified, passLog, sent, stops>>

-----------------------------------------------------------------------------
(* Bounds of the model *)

MaxId == 3          \* rows ever inserted
MaxAdds == 2        \* rows inserted by the ingestion path (the rest are successors)
MaxTicks == 3       \* clock steps
MaxAddTicks == 0    \* reminders are created during the first MaxAddTicks clock steps
MaxStops == 1       \* stops (and restarts) of the process

(* Program constants *)

FOLLOW_UP_DELAY_SECONDS == 1800
max_delay_seconds == 2 * 3600
NOT_DONE_DELAY_SECONDS == 30 * 60
DEFAULT_HOUR == 9
DEFAULT_MINUTE == 0

None == "None"      \* Python None / SQL NULL
NoTime == <<None>>  \* recurrence_time IS NULL
Step == 2 * FOLLOW_UP_DELAY_SECONDS
DAY == 24 * 3600

-----------------------------------------------------------------------------
(* Sequences helpers *)

Range(s) == {s[i] : i \in DOMAIN s}

RECURSIVE OrderByScheduledTime_by_id(_)
\* the rows in rowid order, whatever their scheduled_time_utc
OrderByScheduledTime_by_id(S) ==
    IF S = {} THEN <<>>
    ELSE LET m == CHOOSE x \in S : \A y \in S : x.id <= y.id
         IN  <<m>> \o OrderByScheduledTime_by_id(S \ {m})

RECURSIVE OrderByScheduledTime(_)
\* ORDER BY scheduled_time_utc ASC over a set of rows; rows of equal time come
\* in rowid order (the scan of idx_reminders_status_time)
OrderByScheduledTime(S) ==
    IF S = {} THEN <<>>
    ELSE LET m == CHOOSE x \in S : \A y \in S :
                      \/ x.scheduled_time_utc < y.scheduled_time_utc
                      \/ (x.scheduled_time_utc = y.scheduled_time_utc /\ x.id <= y.id)
         IN  <<m>> \o OrderByScheduledTime(S \ {m})

-----------------------------------------------------------------------------
(* Calendar arithmetic of datetime, on the proleptic Gregorian calendar *)

IsLeap(y) == (y % 4 = 0 /\ y % 100 # 0) \/ y % 400 = 0

DaysInMonth(y, m) ==
    IF m = 2 THEN (IF IsLeap(y) THEN 29 ELSE 28)
    ELSE IF m \in {4, 6, 9, 11} THEN 30 ELSE 31

\* days since 1970-01-01 of the civil date y-m-d
DaysFromCivil(y, m, d) ==
    LET yy  == IF m <= 2 THEN y - 1 ELSE y
        era == yy \div 400
        yoe == yy - era * 400
        mp  == IF m > 2 THEN m - 3 ELSE m + 9
        doy == (153 * mp + 2) \div 5 + d - 1
        doe == yoe * 365 + yoe \div 4 - yoe \div 100 + doy
    IN  era * 146097 + doe - 719468

\* the civil date [year, month, day] of a day number
CivilFromDays(z) ==
    LET zz  == z + 719468
        era == zz \div 146097
        doe == zz - era * 146097
        yoe == (doe - doe \div 1460 + doe \div 36524 - doe \div 146096) \div 365
        doy == doe - (365 * yoe + yoe \div 4 - yoe \div 100)
        mp  == (5 * doy + 2) \div 153
        d   == doy - (153 * mp + 2) \div 5 + 1
        m   == IF mp < 10 THEN mp + 3 ELSE mp - 9
        y   == yoe + era * 400 + (IF m <= 2 THEN 1 ELSE 0)
    IN  [year |-> y, month |-> m, day |-> d]

\* date.weekday(): Monday is 0, Sunday is 6 (1970-01-01 was a Thursday)
Weekday(z) == (z + 3) % 7

\* tz_module.gettz(name).utcoffset(): the zones the bot hands out are fixed-offset
UtcOffset(user_tz) ==
    CASE user_tz = "Asia/Tashkent" -> 5 * 3600
      [] user_tz = "Europe/Moscow" -> 3 * 3600
      [] OTHER -> 0

-----------------------------------------------------------------------------
(* recurrence_time: NoTime, or a string, modelled as a sequence of characters *)

Digits == <<"0", "1", "2", "3", "4", "5", "6", "7", "8", "9">>
IsDigit(c) == \E i \in DOMAIN Digits : Digits[i] = c
DigitVal(c) == (CHOOSE i \in DOMAIN Digits : Digits[i] = c) - 1

RECURSIVE SplitColon(_)
\* str.split(':')
SplitColon(s) ==
    IF \A i \in DOMAIN s : s[i] # ":" THEN <<s>>
    ELSE LET k == CHOOSE i \in DOMAIN s : s[i] = ":" /\ \A j \in 1..(i - 1) : s[j] # ":"
         IN  <<SubSeq(s, 1, k - 1)>> \o SplitColon(SubSeq(s, k + 1, Len(s)))

RECURSIVE DigitsVal(_)
DigitsVal(s) ==
    IF s = <<>> THEN 0 ELSE 10 * DigitsVal(SubSeq(s, 1, Len(s) - 1)) + DigitVal(s[Len(s)])

\* int(s): an optional sign and at least one decimal digit; anything else raises
IntOk(s) ==
    LET body == IF s # <<>> /\ s[1] \in {"-", "+"} THEN Tail(s) ELSE s
    IN  body # <<>> /\ \A i \in DOMAIN body : IsDigit(body[i])

IntVal(s) ==
    IF s[1] = "-" THEN 0 - DigitsVal(Tail(s))
    ELSE IF s[1] = "+" THEN DigitsVal(Tail(s))
    ELSE DigitsVal(s)

\* database.py 515-519: hour, minute = map(int, recurrence_time.split(':')),
\* and 9, 0 when anything in that raises
ParseRecurrenceTime(recurrence_time) ==
    IF recurrence_time = NoTime THEN <<DEFAULT_HOUR, DEFAULT_MINUTE>>
    ELSE LET parts == SplitColon(recurrence_time)
         IN  IF Len(parts) = 2 /\ IntOk(parts[1]) /\ IntOk(parts[2])
             THEN <<IntVal(parts[1]), IntVal(parts[2])>>
             ELSE <<DEFAULT_HOUR, DEFAULT_MINUTE>>

RECURSIVE SkipWeekend_sunday_only(_)
\* the weekend test with > 5 for >= 5: only Sundays are skipped
SkipWeekend_sunday_only(z) == IF Weekday(z) > 5 THEN SkipWeekend_sunday_only(z + 1) ELSE z

RECURSIVE SkipWeekend(_)
\* while next_date.weekday() >= 5: next_date += timedelta(days=1)
SkipWeekend(z) == IF Weekday(z) >= 5 THEN SkipWeekend(z + 1) ELSE z

RecurrenceTypes == {"daily", "weekdays", "weekly", "monthly"}

\* NextMonthDate clamping to the last day of the next month instead of the 28th
NextMonthDate_last_day(civ) ==
    LET next_month == IF civ.month + 1 > 12 THEN 1 ELSE civ.month + 1
        next_year  == IF civ.month + 1 > 12 THEN civ.year + 1 ELSE civ.year
    IN  IF civ.day <= DaysInMonth(next_year, next_month)
        THEN DaysFromCivil(next_year, next_month, civ.day)
        ELSE DaysFromCivil(next_year, next_month, DaysInMonth(next_year, next_month))

\* database.py 536-545: the same day of the next month, the 28th when that month
\* has no such day (datetime.replace raises ValueError)
NextMonthDate(civ) ==
    LET next_month == IF civ.month + 1 > 12 THEN 1 ELSE civ.month + 1
        next_year  == IF civ.month + 1 > 12 THEN civ.year + 1 ELSE civ.year
    IN  IF civ.day <= DaysInMonth(next_year, next_month)
        THEN DaysFromCivil(next_year, next_month, civ.day)
        ELSE DaysFromCivil(next_year, next_month, 28)

\* database.py 525-545: next_date, as a day number, from today's in the user's zone
next_date(recurrence_type, today) ==
    CASE recurrence_type = "daily"    -> today + 1
      [] recurrence_type = "weekdays" -> SkipWeekend(today + 1)
      [] recurrence_type = "weekly"   -> today + 7
      [] recurrence_type = "monthly"  -> NextMonthDate(CivilFromDays(today))
      [] OTHER -> 0

\* next_datetime_local without the conversion to UTC: the wall-clock time of the
\* user's zone stored as if it were UTC
next_datetime_local_naive(recurrence_type, hm, off, today) ==
    IF recurrence_type = None \/ recurrence_type \notin RecurrenceTypes
    THEN [kind |-> "none"]
    ELSE IF hm[1] \notin 0..23 \/ hm[2] \notin 0..59
    THEN [kind |-> "raise"]
    ELSE [kind |-> "utc",
          at   |-> next_date(recurrence_type, today) * DAY + hm[1] * 3600 + hm[2] * 60]

\* database.py 547-551: next_date.replace(hour=hour, minute=minute, ...) in the
\* user's zone, converted to UTC; hm is <<hour, minute>>, off the zone's offset.
\* [kind |-> "none"]: return None (no such recurrence); [kind |-> "raise"]:
\* datetime.replace raises ValueError (hour or minute out of range);
\* [kind |-> "utc", at |-> seconds] otherwise.
next_datetime_local(recurrence_type, hm, off, today) ==
    IF recurrence_type = None \/ recurrence_type \notin RecurrenceTypes
    THEN [kind |-> "none"]
    ELSE IF hm[1] \notin 0..23 \/ hm[2] \notin 0..59
    THEN [kind |-> "raise"]
    ELSE [kind |-> "utc",
          at   |-> next_date(recurrence_type, today) * DAY
                        + hm[1] * 3600 + hm[2] * 60 - off]

\* database.py 512-551: the UTC instant of the next occurrence, computed from the
\* wall clock `t` of the call (datetime.now(user_timezone))
next_datetime_utc(recurrence_type, recurrence_time, user_tz, t) ==
    next_datetime_local(recurrence_type, ParseRecurrenceTime(recurrence_time),
                        UtcOffset(user_tz), (t + UtcOffset(user_tz)) \div DAY)

-----------------------------------------------------------------------------
(* database.py: the reminders table *)

Ids(tbl) == DOMAIN tbl
Rows(tbl) == {tbl[i] : i \in DOMAIN tbl}

\* INSERT INTO reminders (...) VALUES (..., 0, 0); status defaults to 'pending'
add_reminder(tbl, id, user_id, chat_id, task_text, scheduled_time, user_timezone, notes, location, recurrence_type, recurrence_time) ==
    tbl @@ (id :> [id                    |-> id,
                   user_id               |-> user_id,
                   chat_id               |-> chat_id,
                   task_text             |-> task_text,
                   notes                 |-> notes,
                   location              |-> location,
                   scheduled_time_utc    |-> scheduled_time,
                   user_timezone         |-> user_timezone,
                   status                |-> "pending",
                   initial_reminder_sent |-> 0,
                   follow_up_sent        |-> 0,
                   recurrence_type       |-> recurrence_type,
                   recurrence_time       |-> recurrence_time])

\* get_pending_reminders with scheduled_time_utc < ?
get_pending_reminders_before(tbl, before_time) ==
    OrderByScheduledTime({r \in Rows(tbl) :
        r.status = "pending" /\ r.scheduled_time_utc < before_time})

\* WHERE status = 'pending' AND scheduled_time_utc <= ? ORDER BY scheduled_time_utc ASC
get_pending_reminders(tbl, before_time) ==
    OrderByScheduledTime({r \in Rows(tbl) :
        r.status = "pending" /\ r.scheduled_time_utc <= before_time})

\* get_follow_up_reminders with scheduled_time_utc < ?
get_follow_up_reminders_before(tbl, follow_up_after) ==
    OrderByScheduledTime({r \in Rows(tbl) :
        /\ r.status = "pending"
        /\ r.initial_reminder_sent = 1
        /\ r.follow_up_sent = 0
        /\ r.scheduled_time_utc < follow_up_after})

\* WHERE status = 'pending' AND initial_reminder_sent = 1 AND follow_up_sent = 0
\*   AND scheduled_time_utc <= ? ORDER BY scheduled_time_utc ASC
get_follow_up_reminders(tbl, follow_up_after) ==
    OrderByScheduledTime({r \in Rows(tbl) :
        /\ r.status = "pending"
        /\ r.initial_reminder_sent = 1
        /\ r.follow_up_sent = 0
        /\ r.scheduled_time_utc <= follow_up_after})

\* mark_initial_reminder_sent counting the sends: initial_reminder_sent + 1
mark_initial_reminder_sent_counts(tbl, reminder_id) ==
    IF reminder_id \in Ids(tbl)
    THEN [tbl EXCEPT ![reminder_id].initial_reminder_sent = @ + 1]
    ELSE tbl

\* UPDATE ... WHERE id = ?: no row, no change
mark_initial_reminder_sent(tbl, reminder_id) ==
    IF reminder_id \in Ids(tbl)
    THEN [tbl EXCEPT ![reminder_id].initial_reminder_sent = 1]
    ELSE tbl

mark_follow_up_sent(tbl, reminder_id) ==
    IF reminder_id \in Ids(tbl)
    THEN [tbl EXCEPT ![reminder_id].follow_up_sent = 1]
    ELSE tbl

\* reschedule_reminder_for_followup writing what reschedule_reminder writes:
\* the new time, status and follow_up_sent, initial_reminder_sent left as it is
reschedule_reminder_keeps_initial(tbl, reminder_id, new_scheduled_time) ==
    IF reminder_id \in Ids(tbl)
    THEN [tbl EXCEPT ![reminder_id].scheduled_time_utc = new_scheduled_time,
                     ![reminder_id].status = "pending",
                     ![reminder_id].follow_up_sent = 0]
    ELSE tbl

\* reschedule_reminder_for_followup without the reset of follow_up_sent
reschedule_reminder_for_followup_keeps_follow_up(tbl, reminder_id, new_scheduled_time) ==
    IF reminder_id \in Ids(tbl)
    THEN [tbl EXCEPT ![reminder_id].scheduled_time_utc = new_scheduled_time,
                     ![reminder_id].initial_reminder_sent = 0]
    ELSE tbl

\* UPDATE ... SET scheduled_time_utc = ?, initial_reminder_sent = 0, follow_up_sent = 0
reschedule_reminder_for_followup(tbl, reminder_id, new_scheduled_time) ==
    IF reminder_id \in Ids(tbl)
    THEN [tbl EXCEPT ![reminder_id].scheduled_time_utc = new_scheduled_time,
                     ![reminder_id].initial_reminder_sent = 0,
                     ![reminder_id].follow_up_sent = 0]
    ELSE tbl

update_reminder_status(tbl, reminder_id, status) ==
    IF reminder_id \in Ids(tbl)
    THEN [tbl EXCEPT ![reminder_id].status = status]
    ELSE tbl

\* DELETE FROM reminders WHERE id = ?
delete_reminder(tbl, reminder_id) ==
    [i \in Ids(tbl) \ {reminder_id} |-> tbl[i]]

\* get_latest_pending_reminder without the follow_up_sent = 1 condition: the
\* latest pending reminder of the user
get_latest_pending_reminder_any(tbl, user_id) ==
    LET cand == {r \in Rows(tbl) : r.user_id = user_id /\ r.status = "pending"}
    IN  {r \in cand : \A q \in cand : q.scheduled_time_utc <= r.scheduled_time_utc}

\* WHERE user_id = ? AND status = 'pending' AND follow_up_sent = 1
\* ORDER BY scheduled_time_utc DESC LIMIT 1: the rows the query may return (SQL
\* leaves the choice among rows of equal scheduled_time_utc open)
get_latest_pending_reminder(tbl, user_id) ==
    LET cand == {r \in Rows(tbl) :
                    r.user_id = user_id /\ r.status = "pending" /\ r.follow_up_sent = 1}
    IN  {r \in cand : \A q \in cand : q.scheduled_time_utc <= r.scheduled_time_utc}

\* WHERE status = 'pending' ORDER BY scheduled_time_utc ASC
get_all_pending_reminders(tbl) ==
    OrderByScheduledTime({r \in Rows(tbl) : r.status = "pending"})

\* database.py 553-566: the INSERT of the next occurrence at nx, getting `id`
insert_next_occurrence(tbl, id, reminder, nx) ==
    IF nx.kind = "utc"
    THEN [res |-> "new",
          tbl |-> add_reminder(tbl, id, reminder.user_id, reminder.chat_id,
                               reminder.task_text, nx.at, reminder.user_timezone,
                               reminder.notes, reminder.location,
                               reminder.recurrence_type, reminder.recurrence_time)]
    ELSE [res |-> nx.kind, tbl |-> tbl]

\* schedule_next_recurrence(reminder) called at wall clock t, the INSERT getting `id`:
\* [res, tbl]: res = "none" (returned None), "raise" (ValueError), "new" (row inserted)
schedule_next_recurrence(tbl, id, reminder, t) ==
    insert_next_occurrence(tbl, id, reminder,
        next_datetime_utc(reminder.recurrence_type, reminder.recurrence_time,
                          reminder.user_timezone, t))

-----------------------------------------------------------------------------
(* scheduler.py *)

is_recurring(reminder) == reminder.recurrence_type # None

\* How one call of send_reminder can go: bot.send_message raises; the INSERT of
\* the successor raises; the UPDATE after the send raises; nothing raises.
SendReminderOutcomes(reminder) ==
    IF is_recurring(reminder)
    THEN {"send_failed", "insert_failed", "update_failed", "ok"}
    ELSE {"send_failed", "update_failed", "ok"}

\* scheduler.py 107-112: the recurring branch after a delivered send; nx is what
\* schedule_next_recurrence did to the table `tbl`
advance_recurring(tbl, reminder, res, nx) ==
    IF res = "insert_failed" \/ nx.res = "raise"
    THEN [tbl |-> tbl, delivered |-> TRUE, raised |-> TRUE]
    ELSE IF res = "update_failed"
    THEN [tbl |-> nx.tbl, delivered |-> TRUE, raised |-> TRUE]
    ELSE [tbl |-> update_reminder_status(nx.tbl, reminder.id, "completed"),
          delivered |-> TRUE, raised |-> FALSE]

\* send_reminder with mark_initial_reminder_sent called for every reminder, ahead
\* of the recurring / non-recurring branch
send_reminder_marks_sent(tbl, id, reminder, res, t) ==
    IF res = "send_failed"
    THEN [tbl |-> tbl, delivered |-> FALSE, raised |-> TRUE]
    ELSE IF is_recurring(reminder)
    THEN advance_recurring(mark_initial_reminder_sent(tbl, reminder.id), reminder, res,
            schedule_next_recurrence(mark_initial_reminder_sent(tbl, reminder.id),
                                     id, reminder, t))
    ELSE IF res = "update_failed"
    THEN [tbl |-> tbl, delivered |-> TRUE, raised |-> TRUE]
    ELSE [tbl |-> mark_initial_reminder_sent(tbl, reminder.id),
          delivered |-> TRUE, raised |-> FALSE]

\* send_reminder(context, reminder) at wall clock t with outcome res; `id` is the
\* rowid a new row would get.  [tbl, delivered, raised]: the table afterwards,
\* whether the message reached the chat, whether the except branch (120-121) ran.
send_reminder(tbl, id, reminder, res, t) ==
    IF res = "send_failed"
    THEN [tbl |-> tbl, delivered |-> FALSE, raised |-> TRUE]
    ELSE IF is_recurring(reminder)
    THEN advance_recurring(tbl, reminder, res,
                           schedule_next_recurrence(tbl, id, reminder, t))
    ELSE IF res = "update_failed"
    THEN [tbl |-> tbl, delivered |-> TRUE, raised |-> TRUE]
    ELSE [tbl |-> mark_initial_reminder_sent(tbl, reminder.id),
          delivered |-> TRUE, raised |-> FALSE]

SendFollowUpOutcomes == {"send_failed", "update_failed", "ok"}

\* send_follow_up with mark_follow_up_sent called ahead of bot.send_message
send_follow_up_marks_first(tbl, reminder, res) ==
    IF res = "send_failed"
    THEN [tbl |-> mark_follow_up_sent(tbl, reminder.id),
          delivered |-> FALSE, raised |-> TRUE]
    ELSE IF res = "update_failed"
    THEN [tbl |-> tbl, delivered |-> TRUE, raised |-> TRUE]
    ELSE [tbl |-> mark_follow_up_sent(tbl, reminder.id),
          delivered |-> TRUE, raised |-> FALSE]

\* send_follow_up(context, reminder) with outcome res
send_follow_up(tbl, reminder, res) ==
    IF res = "send_failed"
    THEN [tbl |-> tbl, delivered |-> FALSE, raised |-> TRUE]
    ELSE IF res = "update_failed"
    THEN [tbl |-> tbl, delivered |-> TRUE, raised |-> TRUE]
    ELSE [tbl |-> mark_follow_up_sent(tbl, reminder.id),
          delivered |-> TRUE, raised |-> FALSE]

\* scheduler.py 40-43: the rows of the query the loop hands to send_reminder
Unsent(rows) == SelectSeq(rows, LAMBDA r : r.initial_reminder_sent = 0)

\* check_reminders between two awaited sends: with `rest` of the first loop left
\* and the table `tbl`, run on to the next bot.send_message (or to the end of
\* the pass).  t is the `now` of the pass.
RunToNextSend(tbl, rest, t) ==
    IF Unsent(rest) # <<>>
    THEN [pc |-> "initial", pending |-> Unsent(rest), follow |-> <<>>]
    ELSE LET follow_up_threshold == t - FOLLOW_UP_DELAY_SECONDS
             follow == get_follow_up_reminders(tbl, follow_up_threshold)
         IN  IF follow # <<>>
             THEN [pc |-> "followup", pending |-> <<>>, follow |-> follow]
             ELSE [pc |-> "done", pending |-> <<>>, follow |-> <<>>]

\* check_reminders with what send_reminder raises reaching its own except
\* branch (53-54), which ends the pass
AfterSendReminder_propagates(out, rest, t) ==
    IF out.raised
    THEN [pc |-> "done", pending |-> <<>>, follow |-> <<>>]
    ELSE RunToNextSend(out.tbl, rest, t)

\* scheduler.py 120-121 / 169-170 and 40-43 / 50-51: send_reminder and
\* send_follow_up catch what they raise, so the loop of check_reminders goes on
\* with the rest whatever the outcome `out` of the call
AfterSendReminder(out, rest, t) == RunToNextSend(out.tbl, rest, t)

AfterSendFollowUp(out, rest) ==
    IF rest = <<>> THEN [pc |-> "done", follow |-> <<>>]
    ELSE [pc |-> "followup", follow |-> rest]

Notice(reminder, kind) ==
    [id |-> reminder.id, kind |-> kind, sched |-> reminder.scheduled_time_utc]

\* the notices about rows of tbl at their present scheduled_time_utc; the notices
\* of a deleted row or of a superseded occurrence are forgotten
Current(tbl, notices) ==
    {n \in notices : n.id \in Ids(tbl) /\ tbl[n.id].scheduled_time_utc = n.sched}

\* check_reminders 32-43: the job queue starts a pass; it runs up to its first send
check_reminders ==
    /\ proc = "up"
    /\ pc = "idle"
    /\ \E nxt \in {RunToNextSend(reminders, get_pending_reminders(reminders, now), now)} :
           /\ pc' = nxt.pc
           /\ pending_reminders' = nxt.pending
           /\ follow_up_reminders' = nxt.follow
    /\ pass_now' = now
    /\ passLog' = <<>>
    /\ sent' = <<>>
    /\ UNCHANGED <<reminders, nextId, now, proc, notified, stops>>

\* the awaited send of send_reminder returns (or raises); the pass runs on
SendReminderStep ==
    /\ proc = "up"
    /\ pc = "initial"
    /\ LET reminder == Head(pending_reminders)
       IN  \E res \in SendReminderOutcomes(reminder) :
           \E out \in {send_reminder(reminders, nextId, reminder, res, now)} :
           \E nxt \in {AfterSendReminder(out, Tail(pending_reminders), pass_now)} :
            LET entry == [id |-> reminder.id, kind |-> "initial", res |-> res]
            IN  /\ Ids(out.tbl) # Ids(reminders) => nextId <= MaxId
                /\ reminders' = out.tbl
                /\ nextId' = IF Ids(out.tbl) # Ids(reminders) THEN nextId + 1 ELSE nextId
                /\ notified' = Current(out.tbl,
                                  IF out.delivered
                                  THEN notified \cup {Notice(reminder, "initial")}
                                  ELSE notified)
                /\ passLog' = Append(passLog, entry)
                /\ sent' = <<entry>>
                /\ pc' = nxt.pc
                /\ pending_reminders' = nxt.pending
                /\ follow_up_reminders' = nxt.follow
    /\ UNCHANGED <<now, proc, pass_now, stops>>

\* the awaited send of send_follow_up returns (or raises); the pass runs on
SendFollowUpStep ==
    /\ proc = "up"
    /\ pc = "followup"
    /\ LET reminder == Head(follow_up_reminders)
       IN  \E res \in SendFollowUpOutcomes :
           \E out \in {send_follow_up(reminders, reminder, res)} :
           \E nxt \in {AfterSendFollowUp(out, Tail(follow_up_reminders))} :
            LET entry == [id |-> reminder.id, kind |-> "follow_up", res |-> res]
            IN  /\ reminders' = out.tbl
                /\ notified' = Current(out.tbl,
                                  IF out.delivered
                                  THEN notified \cup {Notice(reminder, "follow_up")}
                                  ELSE notified)
                /\ passLog' = Append(passLog, entry)
                /\ sent' = <<entry>>
                /\ follow_up_reminders' = nxt.follow
                /\ pc' = nxt.pc
    /\ UNCHANGED <<nextId, now, proc, pass_now, pending_reminders, stops>>

\* check_reminders returns: the job is over until the job queue starts the next
PassReturns ==
    /\ proc = "up"
    /\ pc = "done"
    /\ pc' = "idle"
    /\ pass_now' = 0
    /\ passLog' = <<>>
    /\ sent' = <<>>
    /\ UNCHANGED <<reminders, nextId, now, proc, pending_reminders,
                   follow_up_reminders, notified, stops>>

\* the grace test with a grace period of one hour
is_stale_after_hour(overdue_seconds) == overdue_seconds > 3600

\* the grace test with >= for >
is_stale_at_grace(overdue_seconds) == overdue_seconds >= max_delay_seconds

\* scheduler.py 218: if overdue_seconds > max_delay_seconds
is_stale(overdue_seconds) == overdue_seconds > max_delay_seconds

RECURSIVE RecoverLoop_marks_sent(_, _, _, _, _)
\* the recovery with mark_initial_reminder_sent called after a delivered delayed notice
RecoverLoop_marks_sent(tbl, rows, ok, t, acc) ==
    IF rows = <<>> THEN [tbl |-> tbl, log |-> acc]
    ELSE LET reminder  == Head(rows)
             scheduled == reminder.scheduled_time_utc
             overdue_seconds == t - scheduled
         IN  IF scheduled <= t
             THEN IF is_stale(overdue_seconds)
                  THEN RecoverLoop_marks_sent(
                         IF ok[reminder.id]
                         THEN update_reminder_status(tbl, reminder.id, "completed")
                         ELSE tbl,
                         Tail(rows), ok, t,
                         Append(acc, [id |-> reminder.id, kind |-> "skipped",
                                      res |-> IF ok[reminder.id] THEN "ok"
                                              ELSE "update_failed"]))
                  ELSE RecoverLoop_marks_sent(
                         IF ok[reminder.id]
                         THEN mark_initial_reminder_sent(tbl, reminder.id)
                         ELSE tbl,
                         Tail(rows), ok, t,
                         Append(acc, [id |-> reminder.id, kind |-> "delayed",
                                      res |-> IF ok[reminder.id] THEN "ok"
                                              ELSE "send_failed"]))
             ELSE RecoverLoop_marks_sent(tbl, Tail(rows), ok, t, acc)

RECURSIVE RecoverLoop(_, _, _, _, _)
\* recover_pending_reminders 210-261: the loop over the pending rows.  ok[id] tells
\* whether the one outside call made for row id (the UPDATE of a stale row, the
\* send of a recent one) succeeds.  [tbl, log]
RecoverLoop(tbl, rows, ok, t, acc) ==
    IF rows = <<>> THEN [tbl |-> tbl, log |-> acc]
    ELSE LET reminder  == Head(rows)
             scheduled == reminder.scheduled_time_utc
             overdue_seconds == t - scheduled
         IN  IF scheduled <= t
             THEN IF is_stale(overdue_seconds)
                  THEN RecoverLoop(
                         IF ok[reminder.id]
                         THEN update_reminder_status(tbl, reminder.id, "completed")
                         ELSE tbl,
                         Tail(rows), ok, t,
                         Append(acc, [id |-> reminder.id, kind |-> "skipped",
                                      res |-> IF ok[reminder.id] THEN "ok"
                                              ELSE "update_failed"]))
                  ELSE RecoverLoop(tbl, Tail(rows), ok, t,
                         Append(acc, [id |-> reminder.id, kind |-> "delayed",
                                      res |-> IF ok[reminder.id] THEN "ok"
                                              ELSE "send_failed"]))
             ELSE RecoverLoop(tbl, Tail(rows), ok, t, acc)

\* bot.py 181-190 and scheduler.py 193-270: the process starts; post_init runs the
\* recovery before the updater and the job queue start, so nothing interleaves
recover_pending_reminders ==
    /\ proc = "down"
    /\ LET pending == get_all_pending_reminders(reminders)
           due     == {r.id : r \in {q \in Range(pending) : q.scheduled_time_utc <= now}}
       IN  \E ok \in [due -> BOOLEAN] :
           \E out \in {RecoverLoop(reminders, pending, ok, now, <<>>)} :
                /\ reminders' = out.tbl
                /\ notified' = notified \cup
                      {Notice(reminders[e.id], "delayed") :
                          e \in {x \in Range(out.log) : x.kind = "delayed" /\ x.res = "ok"}}
                /\ sent' = out.log
    /\ proc' = "up"
    /\ UNCHANGED <<nextId, now, pc, pass_now, pending_reminders, follow_up_reminders,
                   passLog, stops>>

\* the process stops (crash, kill, redeploy): a running pass is lost with it
Stop ==
    /\ proc = "up"
    /\ stops < MaxStops
    /\ stops' = stops + 1
    /\ proc' = "down"
    /\ pc' = "idle"
    /\ pass_now' = 0
    /\ pending_reminders' = <<>>
    /\ follow_up_reminders' = <<>>
    /\ passLog' = <<>>
    /\ sent' = <<>>
    /\ UNCHANGED <<reminders, nextId, now, notified>>

\* the wall clock
Tick ==
    /\ now < MaxTicks * Step
    /\ pc = "idle"
    /\ now' = now + Step
    /\ sent' = <<>>
    /\ UNCHANGED <<reminders, nextId, proc, pc, pass_now, pending_reminders,
                   follow_up_reminders, notified, passLog, stops>>

-----------------------------------------------------------------------------
(* handlers.py *)

Users == {1, 2}

\* what the ingestion path (voice_message_handler 578-588) hands to add_reminder;
\* scheduled_time is `now` + delay
Drafts ==
    { [user_id |-> 1, chat_id |-> 10, task_text |-> "call mum", notes |-> None,
       location |-> None, user_timezone |-> "Asia/Tashkent",
       recurrence_type |-> None, recurrence_time |-> NoTime, delay |-> 0],
      [user_id |-> 1, chat_id |-> 10, task_text |-> "pay rent", notes |-> None,
       location |-> "bank", user_timezone |-> "Asia/Tashkent",
       recurrence_type |-> None, recurrence_time |-> NoTime,
       delay |-> FOLLOW_UP_DELAY_SECONDS],
      [user_id |-> 2, chat_id |-> 20, task_text |-> "pills", notes |-> "after lunch",
       location |-> "home", user_timezone |-> "Europe/Moscow",
       recurrence_type |-> "daily", recurrence_time |-> <<"0", "9", ":", "0", "0">>,
       delay |-> 0] }

\* voice_message_handler 578-588: a parsed reminder is stored
voice_message_handler ==
    /\ proc = "up"
    /\ nextId <= MaxAdds
    /\ now <= MaxAddTicks * Step
    /\ \E d \in Drafts :
        /\ \A r \in Rows(reminders) : r.task_text # d.task_text
        /\ reminders' = add_reminder(reminders, nextId, d.user_id, d.chat_id,
                                     d.task_text,
                                     now + d.delay, d.user_timezone, d.notes,
                                     d.location, d.recurrence_type, d.recurrence_time)
    /\ nextId' = nextId + 1
    /\ sent' = <<>>
    /\ UNCHANGED <<now, proc, pc, pass_now, pending_reminders, follow_up_reminders,
                   notified, passLog, stops>>

\* /done <id>
done_command(user_id, reminder_id) ==
    /\ proc = "up"
    /\ reminders' = update_reminder_status(reminders, reminder_id, "done")
    /\ sent' = <<>>
    /\ UNCHANGED <<nextId, now, proc, pc, pass_now, pending_reminders,
                   follow_up_reminders, notified, passLog, stops>>

\* /delete <id>
delete_command(user_id, reminder_id) ==
    /\ proc = "up"
    /\ reminders' = delete_reminder(reminders, reminder_id)
    /\ notified' = Current(reminders', notified)
    /\ sent' = <<>>
    /\ UNCHANGED <<nextId, now, proc, pc, pass_now, pending_reminders,
                   follow_up_reminders, passLog, stops>>

\* the reply handlers with the UPDATE keyed by the user instead of the row: every
\* reminder of the user that awaits a response is confirmed
apply_reply_by_user(tbl, id, reminder, affirmative, res, t) ==
    IF res = "update_failed" THEN tbl
    ELSE IF affirmative
    THEN [i \in Ids(tbl) |->
            IF /\ tbl[i].user_id = reminder.user_id
               /\ tbl[i].status = "pending"
               /\ tbl[i].follow_up_sent = 1
            THEN [tbl[i] EXCEPT !.status = "done"]
            ELSE tbl[i]]
    ELSE reschedule_reminder_for_followup(tbl, reminder.id, t + NOT_DONE_DELAY_SECONDS)

\* handlers.py 849-890 / 913-956: the reply is applied to `reminder`.
\* res = "update_failed": the UPDATE raises and the handler ends there;
\* res = "insert_failed": the INSERT of schedule_next_recurrence raises.
apply_reply(tbl, id, reminder, affirmative, res, t) ==
    IF res = "update_failed" THEN tbl
    ELSE IF affirmative
    THEN LET done == update_reminder_status(tbl, reminder.id, "done")
         IN  IF is_recurring(reminder) /\ res = "ok"
             THEN schedule_next_recurrence(done, id, reminder, t).tbl
             ELSE done
    ELSE reschedule_reminder_for_followup(tbl, reminder.id, t + NOT_DONE_DELAY_SECONDS)

ReplyOutcomes(reminder, affirmative) ==
    IF affirmative /\ is_recurring(reminder)
    THEN {"ok", "update_failed", "insert_failed"}
    ELSE {"ok", "update_failed"}

\* what a reply handler that wrote to the table leaves in `sent`: the row it
\* resolved the reply to and how its writes went
ReplyEntry(id, affirmative, res) ==
    [id |-> id, kind |-> IF affirmative THEN "reply_yes" ELSE "reply_no", res |-> res]

\* the reply of user_id, affirmative or not, as both handlers treat it
Reply(user_id, affirmative) ==
    /\ proc = "up"
    /\ LET found == get_latest_pending_reminder(reminders, user_id)
       IN  IF found = {}
           THEN /\ sent' = <<>>
                /\ UNCHANGED <<reminders, nextId, notified>>
           ELSE \E reminder \in found : \E res \in ReplyOutcomes(reminder, affirmative) :
                  \E tbl \in {apply_reply(reminders, nextId, reminder, affirmative, res, now)} :
                      /\ Ids(tbl) # Ids(reminders) => nextId <= MaxId
                      /\ reminders' = tbl
                      /\ nextId' = IF Ids(tbl) # Ids(reminders) THEN nextId + 1 ELSE nextId
                      /\ notified' = Current(tbl, notified)
                      /\ sent' = IF res = "update_failed" THEN <<>>
                                 ELSE <<ReplyEntry(reminder.id, affirmative, res)>>
    /\ UNCHANGED <<now, proc, pc, pass_now, pending_reminders, follow_up_reminders,
                   passLog, stops>>

\* the inline button: query.data is "reminder_yes" or "reminder_no"
yes_no_callback_handler(user_id, action) ==
    Reply(user_id, action = "reminder_yes")

positive == {"HA", "XA", "BAJARILDI", "TAYYOR", "TUGADI"}
negative == {"YO'Q", "YOQ", "HALI", "KEYINROQ"}

\* the text reply, text.strip().upper()
yes_no_handler(user_id, text) ==
    /\ text \in positive \cup negative
    /\ Reply(user_id, text \in positive)

-----------------------------------------------------------------------------

Init ==
    /\ reminders = <<>>
    /\ nextId = 1
    /\ now = 0
    /\ proc = "up"
    /\ pc = "idle"
    /\ pass_now = 0
    /\ pending_reminders = <<>>
    /\ follow_up_reminders = <<>>
    /\ notified = {}
    /\ passLog = <<>>
    /\ sent = <<>>
    /\ stops = 0

Next ==
    \/ Tick
    \/ voice_message_handler
    \/ check_reminders
    \/ SendReminderStep
    \/ SendFollowUpStep
    \/ PassReturns
    \/ Stop
    \/ recover_pending_reminders
    \/ \E u \in Users, i \in 1..MaxId : done_command(u, i)
    \/ \E u \in Users, i \in 1..MaxId : delete_command(u, i)
    \/ \E u \in Users, a \in {"reminder_yes", "reminder_no"} : yes_no_callback_handler(u, a)
    \/ \E u \in Users, x \in {"HA", "YO'Q"} : yes_no_handler(u, x)

Spec == Init /\ [][Next]_vars

\* the engine with the replies, without the /done and /delete commands
LiveNext ==
    \/ Tick
    \/ voice_message_handler
    \/ check_reminders
    \/ SendReminderStep
    \/ SendFollowUpStep
    \/ PassReturns
    \/ Stop
    \/ recover_pending_reminders
    \/ \E u \in Users, a \in {"reminder_yes", "reminder_no"} : yes_no_callback_handler(u, a)
    \/ \E u \in Users, x \in {"HA", "YO'Q"} : yes_no_handler(u, x)

\* bot.send_message delivers the initial notification of row i
DeliveredSend(i) ==
    SendReminderStep /\ sent'[1].id = i /\ sent'[1].res # "send_failed"

\* The job queue runs check_reminders every 30 seconds and each pass runs to its
\* end (setup_scheduler 173-190); a stopped process is started again and runs the
\* recovery (post_init); and sends eventually succeed: a reminder that passes
\* keep trying to send is delivered in the end.
FairSpec ==
    /\ Init /\ [][LiveNext]_vars
    /\ WF_vars(check_reminders)
    /\ WF_vars(PassReturns)
    /\ WF_vars(SendFollowUpStep)
    /\ WF_vars(recover_pending_reminders)
    /\ \A i \in 1..MaxId :
          []<>(proc = "up" /\ pc = "initial" /\ Head(pending_reminders).id = i)
              => []<><<DeliveredSend(i)>>_vars

-----------------------------------------------------------------------------
(* One occurrence of a recurring reminder in the store, and what the scheduler  *)
(* and the reply handlers make of it.  From an empty table the engine never      *)
(* brings a recurring reminder to follow_up_sent = 1; the recurring branch of    *)
(* the reply handlers (handlers.py 849-871, 913-935) serves tables that hold     *)
(* such rows, so the occurrence is drawn unsent or awaiting its response.        *)

\* the local days of the occurrence: Fri 2024-01-26, Sat 2024-01-27,
\* Sun 2024-01-28, Wed 2024-01-31, Tue 2024-12-31
OccurrenceDays ==
    { DaysFromCivil(2024, 1, 26), DaysFromCivil(2024, 1, 27), DaysFromCivil(2024, 1, 28),
      DaysFromCivil(2024, 1, 31), DaysFromCivil(2024, 12, 31) }

\* recurrence_time: "09:00", "23:30", NULL, and what is not a time of day:
\* "25:00", "09:75", "9", "ab:cd"
RecurrenceTimes ==
    { <<"0", "9", ":", "0", "0">>, <<"2", "3", ":", "3", "0">>, NoTime,
      <<"2", "5", ":", "0", "0">>, <<"0", "9", ":", "7", "5">>, <<"9">>,
      <<"a", "b", ":", "c", "d">> }

\* the wall-clock <<hour, minute>> the occurrence in the store is scheduled at:
\* its recurrence_time, 09:00 when that is no time of day
OccurrenceClock(recurrence_time) ==
    LET hm == ParseRecurrenceTime(recurrence_time)
    IN  IF hm[1] \in 0..23 /\ hm[2] \in 0..59 THEN hm ELSE <<DEFAULT_HOUR, DEFAULT_MINUTE>>

Zones == {"Asia/Tashkent", "Europe/Moscow"}

\* how long after its scheduled time the occurrence is looked at
Delays == {0, FOLLOW_UP_DELAY_SECONDS, max_delay_seconds}

\* the row of the occurrence: as add_reminder writes it, or awaiting its response
Occurrence(scheduled_time, user_timezone, recurrence_type, recurrence_time, awaiting) ==
    [add_reminder(<<>>, 1, 1, 10, "pills", scheduled_time, user_timezone, None, None, recurrence_type, recurrence_time)[1]
        EXCEPT !.initial_reminder_sent = IF awaiting THEN 1 ELSE 0,
               !.follow_up_sent = IF awaiting THEN 1 ELSE 0]

RecurrenceInit ==
    /\ \E recurrence_type \in RecurrenceTypes, recurrence_time \in RecurrenceTimes,
          user_timezone \in Zones, day \in OccurrenceDays, delay \in Delays,
          awaiting \in BOOLEAN :
        \E hm \in {OccurrenceClock(recurrence_time)} :
        \E at \in {day * DAY + hm[1] * 3600 + hm[2] * 60 - UtcOffset(user_timezone)} :
            /\ reminders = 1 :> Occurrence(at, user_timezone, recurrence_type,
                                           recurrence_time, awaiting)
            /\ now = at + delay
    /\ nextId = 2
    /\ proc = "up"
    /\ pc = "idle"
    /\ pass_now = 0
    /\ pending_reminders = <<>>
    /\ follow_up_reminders = <<>>
    /\ notified = {}
    /\ passLog = <<>>
    /\ sent = <<>>
    /\ stops = 0

RecurrenceNext ==
    \/ check_reminders
    \/ SendReminderStep
    \/ PassReturns
    \/ \E u \in Users, a \in {"reminder_yes", "reminder_no"} : yes_no_callback_handler(u, a)
    \/ \E u \in Users, x \in {"HA", "YO'Q"} : yes_no_handler(u, x)

RecurrenceSpec == RecurrenceInit /\ [][RecurrenceNext]_vars

-----------------------------------------------------------------------------
(* Properties *)

SeqIds(rows) == {rows[i].id : i \in DOMAIN rows}

\* the entries of a log about row id
LogOf(log, id) == SelectSeq(log, LAMBDA e : e.id = id)

\* the steps of a run, told by what they do to pc, proc and sent
RecoveryStep     == proc = "down" /\ proc' = "up"
QueryStep        == pc = "idle" /\ pc' # "idle"
InitialSendStep  == pc = "initial" /\ sent' # <<>> /\ sent'[1].kind = "initial"
FollowUpSendStep == pc = "followup" /\ sent' # <<>> /\ sent'[1].kind = "follow_up"
\* the step of a pass that runs the follow-up query
FollowUpQueryStep == pc \in {"idle", "initial"} /\ pc' \in {"followup", "done"}

\* C1: a reminder is never double-fired across a restart: when a pass delivers
\* the regular initial notification of a reminder and records it, no delayed
\* recovery notice has been delivered for the same occurrence of that reminder.
C1_NeverDoubleFired ==
    \A i \in DOMAIN sent :
        (sent[i].kind = "initial" /\ sent[i].res = "ok")
            => \A n \in notified : ~(n.id = sent[i].id /\ n.kind = "delayed")

\* C2: at startup recovery every pending reminder with scheduled_time_utc <= now
\* is handled once: overdue by more than 2 hours, its status is set to completed
\* and no notification is sent for it; overdue by at most exactly 2 hours, exactly
\* one delayed notification is sent for it and the row is left as it is.  (When
\* the UPDATE or the send raises, the code logs it and leaves the row as it is.)
C2_RecoveryGraceWindow ==
    [][ RecoveryStep =>
          \A r \in Rows(reminders) :
            (r.status = "pending" /\ r.scheduled_time_utc <= now) =>
              LET es == LogOf(sent', r.id)
              IN  /\ Len(es) = 1
                  /\ IF now - r.scheduled_time_utc > 2 * 3600
                     THEN /\ es[1].kind = "skipped"
                          /\ Notice(r, "delayed") \notin (notified' \ notified)
                          /\ es[1].res = "ok" => reminders'[r.id].status = "completed"
                          /\ es[1].res # "ok" => reminders'[r.id] = r
                     ELSE /\ es[1].kind = "delayed"
                          /\ es[1].res = "ok" => Notice(r, "delayed") \in notified'
                          /\ reminders'[r.id] = r
      ]_vars

\* C2 witness: the recovery delivered the delayed notice of a reminder that was
\* overdue by exactly 2 hours
C2_Witness ==
    \E i \in DOMAIN sent :
        /\ sent[i].kind = "delayed"
        /\ sent[i].res = "ok"
        /\ now - reminders[sent[i].id].scheduled_time_utc = 2 * 3600

\* C3 as stated: a reminder that is pending when the process restarts never
\* ends in a terminal status without any notification having been sent for it.
C3_NeverTerminalUnnotified ==
    [][ RecoveryStep =>
          \A r \in Rows(reminders) :
            (r.status = "pending" /\ reminders'[r.id].status # "pending")
                => \E n \in notified' : n.id = r.id
      ]_vars

\* C3, amended: the restart takes a pending reminder to a terminal status only
\* when it is overdue by more than 2 hours (then without a notification); every
\* other pending reminder is left as it is, and a pass ends a pending occurrence
\* only on a delivered send; and, provided sends eventually succeed, every
\* reminder that is pending and due is eventually notified for that occurrence,
\* unless it stops being pending or is rescheduled first.
C3_LostOnlyPastGrace ==
  /\ \A i \in 1..MaxId :
        (/\ i \in Ids(reminders)
         /\ reminders[i].status = "pending"
         /\ reminders[i].scheduled_time_utc <= now)
          ~> (\/ i \notin Ids(reminders)
              \/ reminders[i].status # "pending"
              \/ reminders[i].scheduled_time_utc > now
              \/ \E n \in notified : n.id = i)
  /\
    [][ /\ RecoveryStep =>
              \A r \in Rows(reminders) : r.status = "pending" =>
                 /\ reminders'[r.id].status # "pending"
                        => now - r.scheduled_time_utc > 2 * 3600
                 /\ now - r.scheduled_time_utc <= 2 * 3600 => reminders'[r.id] = r
        /\ (InitialSendStep \/ FollowUpSendStep) =>
              \A r \in Rows(reminders) :
                 (r.status = "pending" /\ reminders'[r.id].status # "pending")
                    => /\ sent'[1].id = r.id
                       /\ sent'[1].res # "send_failed"
                       /\ Notice(r, "initial") \in notified'
      ]_vars

\* C3 witness: the recovery has completed a reminder that was never notified
C3_Witness ==
    \E i \in DOMAIN sent :
        /\ sent[i].kind = "skipped"
        /\ sent[i].res = "ok"
        /\ reminders[sent[i].id].status = "completed"
        /\ \A n \in notified : n.id # sent[i].id

\* C4: in a pass run at t the reminders handed to first delivery are exactly
\* the rows that, at the query, are pending, have initial_reminder_sent = 0 and
\* scheduled_time_utc <= t; an initial notification only ever goes to the next of
\* them, and the pass adds none.
C4_FirstDeliverySelection ==
    [][ /\ QueryStep =>
              /\ SeqIds(pending_reminders') =
                    {r.id : r \in {q \in Rows(reminders) :
                        /\ q.status = "pending"
                        /\ q.initial_reminder_sent = 0
                        /\ q.scheduled_time_utc <= now}}
              /\ \A i \in DOMAIN pending_reminders' :
                    pending_reminders'[i] = reminders[pending_reminders'[i].id]
              /\ Cardinality(SeqIds(pending_reminders')) = Len(pending_reminders')
        /\ \A i \in DOMAIN sent' : sent'[i].kind = "initial" =>
              /\ pc = "initial"
              /\ sent'[i].id = Head(pending_reminders).id
        /\ pc # "idle" => SeqIds(pending_reminders') \subseteq SeqIds(pending_reminders)
      ]_vars

\* C4 witness: a pass is delivering a due reminder while another due, pending
\* row stays out of the first loop because its initial_reminder_sent is 1
C4_Witness ==
    /\ pc = "initial"
    /\ \E i \in DOMAIN sent : sent[i].kind = "initial"
    /\ \E r \in Rows(reminders) :
          /\ r.status = "pending"
          /\ r.initial_reminder_sent = 1
          /\ r.scheduled_time_utc <= pass_now
          /\ r.id \notin SeqIds(pending_reminders)

\* C5: a non-recurring reminder in the state pending, initial_reminder_sent = 1,
\* follow_up_sent = 0 is returned by the follow-up query of a pass run at `now`
\* if and only if now >= scheduled_time_utc + 30 minutes.
C5_FollowUpAfterDelay ==
    [][ FollowUpQueryStep =>
          /\ \A r \in Rows(reminders') :
                (/\ r.recurrence_type = None
                 /\ r.status = "pending"
                 /\ r.initial_reminder_sent = 1
                 /\ r.follow_up_sent = 0)
                  => (r \in Range(follow_up_reminders')
                        <=> pass_now' >= r.scheduled_time_utc + 30 * 60)
          /\ \A r \in Range(follow_up_reminders') :
                pass_now' >= r.scheduled_time_utc + 30 * 60
      ]_vars

\* C5 witness: a pass has selected for follow-up a reminder scheduled exactly
\* 30 minutes before the pass
C5_Witness ==
    /\ pc = "followup"
    /\ \E r \in Range(follow_up_reminders) :
          pass_now = r.scheduled_time_utc + 30 * 60

\* C6: a recurring reminder never gets a follow-up: the follow-up query never
\* returns one, no pass holds one for send_follow_up, and send_follow_up is not
\* called for one.
C6_NoFollowUpForRecurring ==
    /\ \A r \in Range(get_follow_up_reminders(reminders, now)) : r.recurrence_type = None
    /\ \A r \in Range(follow_up_reminders) : r.recurrence_type = None
    /\ \A i \in DOMAIN sent : sent[i].kind = "follow_up" =>
          \A r \in Rows(reminders) : r.id = sent[i].id => r.recurrence_type = None

\* C6 witness: the follow-up query of a pass has run while a recurring occurrence,
\* delivered more than 30 minutes after its time, is still pending (the UPDATE
\* after its send failed)
C6_Witness ==
    /\ pc \in {"followup", "done"}
    /\ \E r \in Rows(reminders) :
          /\ r.recurrence_type # None
          /\ r.status = "pending"
          /\ r.scheduled_time_utc <= pass_now - FOLLOW_UP_DELAY_SECONDS
          /\ Notice(r, "initial") \in notified

\* C7: when a pass delivers a due recurring reminder, the fired occurrence is
\* completed with its scheduled_time_utc unchanged, and exactly one new record
\* exists: pending, both flags 0, same user, chat, task text, notes, location,
\* timezone and recurrence fields.
C7_RecurringAdvance ==
    [][ (/\ InitialSendStep
         /\ sent'[1].res # "send_failed"
         /\ Head(pending_reminders).recurrence_type # None
         /\ Head(pending_reminders).id \in Ids(reminders)) =>
          LET r   == reminders[Head(pending_reminders).id]
              new == Ids(reminders') \ Ids(reminders)
          IN  /\ reminders'[r.id].status = "completed"
              /\ reminders'[r.id].scheduled_time_utc = r.scheduled_time_utc
              /\ Cardinality(new) = 1
              /\ \A i \in new :
                    reminders'[i] =
                        [r EXCEPT !.id = i,
                                  !.scheduled_time_utc = reminders'[i].scheduled_time_utc,
                                  !.status = "pending",
                                  !.initial_reminder_sent = 0,
                                  !.follow_up_sent = 0]
      ]_vars

\* C8: a recurring series never has two pending records for the same occurrence
C8_OneRecordPerFiring ==
    \A r1, r2 \in Rows(reminders) :
        (/\ r1.id # r2.id
         /\ r1.recurrence_type # None
         /\ r1.status = "pending" /\ r2.status = "pending"
         /\ r1.user_id = r2.user_id /\ r1.task_text = r2.task_text
         /\ r1.recurrence_type = r2.recurrence_type)
            => r1.scheduled_time_utc # r2.scheduled_time_utc

\* C9: when the send of a notification fails in a pass, the table is left as it
\* is (status and both flags unchanged, no successor), the pass goes on, and the
\* reminder, if the query selected it as the table has it, is selected again by
\* the same query.
C9_SendFailureLeavesReminder ==
    [][ /\ (InitialSendStep /\ sent'[1].res = "send_failed") =>
              LET r == Head(pending_reminders)
              IN  /\ reminders' = reminders /\ nextId' = nextId
                  /\ pc' \in {"initial", "followup", "done"}
                  /\ pending_reminders' = Tail(pending_reminders)
                  /\ (r.id \in Ids(reminders) /\ reminders[r.id] = r) =>
                        r \in Range(Unsent(get_pending_reminders(reminders', now')))
        /\ (FollowUpSendStep /\ sent'[1].res = "send_failed") =>
              LET r == Head(follow_up_reminders)
              IN  /\ reminders' = reminders /\ nextId' = nextId
                  /\ pc' \in {"followup", "done"}
                  /\ follow_up_reminders' = Tail(follow_up_reminders)
                  /\ (r.id \in Ids(reminders) /\ reminders[r.id] = r) =>
                        r \in Range(get_follow_up_reminders(reminders',
                                        now' - FOLLOW_UP_DELAY_SECONDS))
      ]_vars

\* C9 witness: the send of a follow-up has just failed
C9_Witness ==
    /\ Len(sent) = 1
    /\ sent[1].kind = "follow_up"
    /\ sent[1].res = "send_failed"
    /\ reminders[sent[1].id].follow_up_sent = 0

\* C10: whatever the outcome of processing one reminder of a pass, the rest of
\* the pass is processed: the first loop goes on with every remaining selected
\* reminder, the follow-up query runs after the last of them, the follow-up loop
\* goes on with every remaining follow-up, and a later send that succeeds advances
\* the flags of its reminder.
C10_FailureDoesNotStopPass ==
    [][ /\ InitialSendStep =>
              /\ pending_reminders' = Tail(pending_reminders)
              /\ pc' = IF Tail(pending_reminders) # <<>> THEN "initial"
                       ELSE IF follow_up_reminders' # <<>> THEN "followup" ELSE "done"
              /\ Tail(pending_reminders) = <<>> =>
                    follow_up_reminders' =
                        get_follow_up_reminders(reminders', pass_now - FOLLOW_UP_DELAY_SECONDS)
              /\ passLog' = Append(passLog, sent'[1])
              /\ (sent'[1].res = "ok" /\ sent'[1].id \in Ids(reminders)) =>
                    \/ reminders'[sent'[1].id].initial_reminder_sent = 1
                    \/ reminders'[sent'[1].id].status = "completed"
        /\ FollowUpSendStep =>
              /\ follow_up_reminders' = Tail(follow_up_reminders)
              /\ pc' = IF Tail(follow_up_reminders) # <<>> THEN "followup" ELSE "done"
              /\ passLog' = Append(passLog, sent'[1])
              /\ (sent'[1].res = "ok" /\ sent'[1].id \in Ids(reminders)) =>
                    reminders'[sent'[1].id].follow_up_sent = 1
      ]_vars

\* C10 witness: in one pass a reminder failed (in its send or after it) and a
\* later reminder of the pass was sent and had its flags advanced
C10_Witness ==
    \E i, j \in DOMAIN passLog :
        /\ i < j
        /\ passLog[i].res # "ok"
        /\ passLog[j].res = "ok"


\* C11: the recovery changes no field of a reminder whose scheduled time is in
\* the future; for a reminder it notifies within the grace period it changes
\* neither status, initial_reminder_sent, follow_up_sent nor scheduled_time_utc;
\* it creates no record and sends no follow-up prompt.
C11_RecoveryFrame ==
    [][ RecoveryStep =>
          /\ \A r \in Rows(reminders) :
                r.scheduled_time_utc > now =>
                    r.id \in Ids(reminders') /\ reminders'[r.id] = r
          /\ \A i \in DOMAIN sent' :
                sent'[i].kind = "delayed" =>
                    LET r == reminders[sent'[i].id]
                        q == reminders'[sent'[i].id]
                    IN  /\ q.status = r.status
                        /\ q.initial_reminder_sent = r.initial_reminder_sent
                        /\ q.follow_up_sent = r.follow_up_sent
                        /\ q.scheduled_time_utc = r.scheduled_time_utc
          /\ Ids(reminders') = Ids(reminders)
          /\ nextId' = nextId
          /\ \A i \in DOMAIN sent' : sent'[i].kind # "follow_up"
          /\ \A n \in notified' \ notified : n.kind = "delayed"
      ]_vars

\* C11 witness: the recovery has delivered the delayed notice of one reminder
\* while another pending reminder is scheduled in the future
C11_Witness ==
    /\ proc = "up"
    /\ \E i \in DOMAIN sent :
          /\ sent[i].kind = "delayed"
          /\ sent[i].res = "ok"
          /\ reminders[sent[i].id].initial_reminder_sent = 0
    /\ \E r \in Rows(reminders) :
          r.status = "pending" /\ r.scheduled_time_utc > now


\* the steps of the reply handlers that wrote to the table, told by `sent`
ReplyYesStep == sent' # <<>> /\ sent'[1].kind = "reply_yes"
ReplyNoStep  == sent' # <<>> /\ sent'[1].kind = "reply_no"

\* the steps of the reply handlers for user u
AffirmativeReply(u) ==
    yes_no_callback_handler(u, "reminder_yes") \/ \E x \in positive : yes_no_handler(u, x)
NegativeReply(u) ==
    yes_no_callback_handler(u, "reminder_no") \/ \E x \in negative : yes_no_handler(u, x)

\* C12: an affirmative reply (button or text token) resolved to a non-recurring
\* reminder awaiting response sets the status of that reminder to done, creates
\* no record and changes no other reminder.
C12_AffirmativeNonRecurring ==
    [][ \A u \in Users :
          (/\ ReplyYesStep
           /\ AffirmativeReply(u)
           /\ reminders[sent'[1].id].recurrence_type = None) =>
             /\ sent'[1].id \in {r.id : r \in get_latest_pending_reminder(reminders, u)}
             /\ reminders' = [reminders EXCEPT ![sent'[1].id].status = "done"]
             /\ nextId' = nextId
      ]_vars

\* C12 witness: an affirmative reply has confirmed one non-recurring reminder of
\* a user while another reminder of the same user still awaits its response
C12_Witness ==
    /\ Len(sent) = 1
    /\ sent[1].kind = "reply_yes"
    /\ sent[1].res = "ok"
    /\ sent[1].id \in Ids(reminders)
    /\ reminders[sent[1].id].status = "done"
    /\ reminders[sent[1].id].recurrence_type = None
    /\ \E r \in Rows(reminders) :
          /\ r.id # sent[1].id
          /\ r.user_id = reminders[sent[1].id].user_id
          /\ r.status = "pending"
          /\ r.follow_up_sent = 1


\* the instant one recurrence period after the occurrence r: the local day of r
\* advanced by one period, at the wall-clock recurrence_time, in UTC
OnePeriodLater(r) ==
    next_datetime_local(r.recurrence_type, ParseRecurrenceTime(r.recurrence_time),
                        UtcOffset(r.user_timezone),
                        (r.scheduled_time_utc + UtcOffset(r.user_timezone)) \div DAY).at

C14_NegativeReplyReschedules ==
    [][ \A u \in Users :
          (ReplyNoStep /\ NegativeReply(u)) =>
             LET r == reminders[sent'[1].id]
                 q == reminders'[sent'[1].id]
             IN  /\ r \in get_latest_pending_reminder(reminders, u)
                 /\ reminders' = [reminders EXCEPT ![r.id] =
                                    [r EXCEPT !.initial_reminder_sent = 0,
                                              !.follow_up_sent = 0,
                                              !.scheduled_time_utc = now + 30 * 60]]
                 /\ q.status = "pending"
                 /\ nextId' = nextId
                 /\ \A t \in {now, now + 30 * 60 - 1, now + 30 * 60, now + 30 * 60 + 1,
                               now + Step} :
                       q \in Range(Unsent(get_pending_reminders(reminders', t)))
                          <=> t >= now + 30 * 60
      ]_vars

\* C14 witness: a negative reply has just put a reminder that awaited its
\* response back into the unsent state, 30 minutes ahead
C14_Witness ==
    /\ Len(sent) = 1
    /\ sent[1].kind = "reply_no"
    /\ sent[1].res = "ok"
    /\ sent[1].id \in Ids(reminders)
    /\ reminders[sent[1].id].status = "pending"
    /\ reminders[sent[1].id].initial_reminder_sent = 0
    /\ reminders[sent[1].id].follow_up_sent = 0
    /\ reminders[sent[1].id].scheduled_time_utc = now + NOT_DONE_DELAY_SECONDS
    /\ Notice(reminders[sent[1].id], "follow_up") \notin notified
    /\ now > 0


\* the user presses a button of the follow-up prompt that was delivered for
\* reminder R: the prompt carries callback_data "reminder_yes" / "reminder_no"
\* (scheduler.py 151-152) and the handler gets the user and that data
PressButton(R, action) ==
    /\ Notice(R, "follow_up") \in notified
    /\ yes_no_callback_handler(R.user_id, action)

\* C15: the yes/no buttons of a follow-up prompt are correlated to the reminder
\* the prompt was sent for: a button reply to the prompt of reminder R, R awaiting
\* its response, updates R and leaves every other reminder unchanged.
C15_ButtonCorrelated ==
    [][ \A R \in Rows(reminders) : \A action \in {"reminder_yes", "reminder_no"} :
          (/\ R.status = "pending"
           /\ R.follow_up_sent = 1
           /\ PressButton(R, action)
           /\ sent' # <<>>) =>
             /\ sent'[1].id = R.id
             /\ reminders'[R.id] # R
             /\ \A i \in Ids(reminders) \ {R.id} :
                    i \in Ids(reminders') /\ reminders'[i] = reminders[i]
      ]_vars


\* user u has a reminder that awaits its response
Awaiting(u) ==
    \E r \in Rows(reminders) :
        r.user_id = u /\ r.status = "pending" /\ r.follow_up_sent = 1

\* what a step of a handler leaves as it is: the clock, the process and the
\* running pass
HandlerFrame ==
    UNCHANGED <<now, proc, pc, pass_now, pending_reminders, follow_up_reminders,
                passLog, stops>>

\* C16: a yes/no reply (button or text) of a user who has no reminder with
\* status = pending and follow_up_sent = 1 changes, creates and deletes no
\* reminder of any user: no step that changes the table, the row ids or the
\* delivered notices is a reply of such a user.
C16_ReplyOutOfContext ==
    [][ \A u \in Users :
          (/\ HandlerFrame
           /\ (reminders' # reminders \/ nextId' # nextId \/ notified' # notified)
           /\ ~Awaiting(u)) =>
             /\ \A action \in {"reminder_yes", "reminder_no"} :
                    ~yes_no_callback_handler(u, action)
             /\ \A text \in {"HA", "YO'Q"} : ~yes_no_handler(u, text)
      ]_vars

\* C16 witness: the handlers run for user 2, who has a delivered reminder that
\* does not await a response yet, while a reminder of user 1 awaits its response
C16_Witness ==
    /\ proc = "up"
    /\ ~Awaiting(2)
    /\ Awaiting(1)
    /\ \E r \in Rows(reminders) :
          r.user_id = 2 /\ r.status = "pending" /\ Notice(r, "initial") \in notified


\* the running pass calls bot.send_message for the next reminder of its lists
InitialSendStarts ==
    pc' = "initial" /\ (pc # "initial" \/ pending_reminders' # pending_reminders)
FollowUpSendStarts ==
    pc' = "followup" /\ (pc # "followup" \/ follow_up_reminders' # follow_up_reminders)

\* a non-recurring reminder whose status is done
ConfirmedDone(tbl, id) ==
    id \in Ids(tbl) /\ tbl[id].recurrence_type = None /\ tbl[id].status = "done"

\* C17: once a non-recurring reminder has status = done, no notification is
\* sent for it any more (a pass starts no initial notification and no follow-up
\* prompt for it, the recovery sends no delayed notice for it) and no record is
\* created from it, whatever the interleaving of commands and replies with a
\* running pass.
C17_NothingAfterDone ==
    [][ /\ InitialSendStarts => ~ConfirmedDone(reminders', Head(pending_reminders').id)
        /\ FollowUpSendStarts => ~ConfirmedDone(reminders', Head(follow_up_reminders').id)
        /\ RecoveryStep =>
              \A i \in DOMAIN sent' : ~ConfirmedDone(reminders, sent'[i].id)
        /\ \A j \in Ids(reminders') \ Ids(reminders) :
              \A r \in Rows(reminders) :
                 ConfirmedDone(reminders, r.id) =>
                    ~(reminders'[j].user_id = r.user_id
                        /\ reminders'[j].task_text = r.task_text)
      ]_vars


\* C18: done and completed are terminal: once the status of a reminder is done
\* or completed, no step changes it again, neither back to pending nor from one
\* terminal status to the other.
C18_TerminalStatus ==
    [][ \A i \in Ids(reminders) :
          (reminders[i].status \in {"done", "completed"} /\ i \in Ids(reminders'))
             => reminders'[i].status = reminders[i].status
      ]_vars


\* the wall-clock <<hour, minute>> a recurrence_time of RecurrenceTimes stands
\* for: "09:00", "23:30", and 09:00 when it is absent
WallClock(recurrence_time) ==
    CASE recurrence_time = <<"0", "9", ":", "0", "0">> -> <<9, 0>>
      [] recurrence_time = <<"2", "3", ":", "3", "0">> -> <<23, 30>>
      [] OTHER -> <<9, 0>>

\* the day number, in the zone of row r, of the instant t
LocalDay(r, t) == (t + UtcOffset(r.user_timezone)) \div DAY

\* the UTC instant of the wall-clock time of row r on the local day d
LocalInstant(r, d) ==
    d * DAY + WallClock(r.recurrence_time)[1] * 3600
            + WallClock(r.recurrence_time)[2] * 60 - UtcOffset(r.user_timezone)

\* the records the step creates
Created == {reminders'[j] : j \in Ids(reminders') \ Ids(reminders)}

\* C19 as stated: the successor of a daily reminder fired by a pass is scheduled
\* exactly one calendar day after the fired occurrence, at recurrence_time in
\* the user's zone, whatever the delay between the scheduled time and the pass.
C19_DailyAfterOccurrence ==
    [][ InitialSendStep =>
          \A q \in Created :
             q.recurrence_type = "daily" =>
                LET r == reminders[sent'[1].id]
                IN  q.scheduled_time_utc = LocalInstant(q, LocalDay(r, r.scheduled_time_utc) + 1)
      ]_vars

\* C19, amended: the successor of a daily reminder fired by a pass is scheduled
\* exactly one calendar day after the user's local day at the pass, at
\* recurrence_time (09:00 when absent) in the user's zone, converted to UTC; that
\* is one day after the fired occurrence when the pass runs on the occurrence's
\* own local day.
C19_DailyNextDay ==
    [][ InitialSendStep =>
          \A q \in Created :
             q.recurrence_type = "daily" =>
                LET r == reminders[sent'[1].id]
                IN  /\ q.scheduled_time_utc = LocalInstant(q, LocalDay(q, now) + 1)
                    /\ q.user_timezone = r.user_timezone
                    /\ q.recurrence_time = r.recurrence_time
                    /\ LocalDay(r, now) = LocalDay(r, r.scheduled_time_utc)
                          => q.scheduled_time_utc = r.scheduled_time_utc + DAY
      ]_vars

\* C19 witness: a pass has fired a daily 23:30 reminder after local midnight and
\* its successor is two days after the fired occurrence
C19_Witness ==
    /\ Len(sent) = 1
    /\ sent[1].kind = "initial"
    /\ sent[1].res = "ok"
    /\ \E r, q \in Rows(reminders) :
          /\ r.id = sent[1].id
          /\ r.recurrence_type = "daily"
          /\ r.status = "completed"
          /\ q.id > r.id
          /\ q.status = "pending"
          /\ q.scheduled_time_utc = r.scheduled_time_utc + 2 * DAY

\* C20: the successor of a weekdays reminder is on the first local day after
\* the user's local day at the computation that is Monday to Friday: from a
\* Friday, a Saturday or a Sunday it is the following Monday, and it is never on
\* a Saturday or a Sunday.
C20_WeekdaysNext ==
    [][ \A q \in Created :
          q.recurrence_type = "weekdays" =>
             LET today == LocalDay(q, now)
                 d     == LocalDay(q, q.scheduled_time_utc)
             IN  /\ q.scheduled_time_utc = LocalInstant(q, d)
                 /\ d > today
                 /\ Weekday(d) \in 0..4
                 /\ \A e \in (today + 1)..(d - 1) : Weekday(e) \in {5, 6}
                 /\ Weekday(today) \in {4, 5, 6} =>
                        Weekday(d) = 0 /\ d = today + (7 - Weekday(today))
      ]_vars

\* C20 witness: a weekdays reminder was fired on Friday 2024-01-26 and its
\* successor is on Monday 2024-01-29
C20_Witness ==
    /\ Weekday(DaysFromCivil(2024, 1, 26)) = 4
    /\ \E r, q \in Rows(reminders) :
          /\ r.recurrence_type = "weekdays"
          /\ r.status = "completed"
          /\ LocalDay(r, r.scheduled_time_utc) = DaysFromCivil(2024, 1, 26)
          /\ LocalDay(r, now) = DaysFromCivil(2024, 1, 26)
          /\ q.id > r.id
          /\ q.status = "pending"
          /\ LocalDay(q, q.scheduled_time_utc) = DaysFromCivil(2024, 1, 29)


\* C21: the successor of a monthly reminder is on the same day-of-month as the
\* user's local day at the computation, in the month after it (January of the
\* next year after December), at the wall-clock recurrence_time in the user's
\* zone; when that month has no such day it is on the 28th (from Jan 31 at 09:00:
\* Feb 28 09:00 local).
C21_MonthlyNext ==
    [][ \A q \in Created :
          q.recurrence_type = "monthly" =>
             LET today == CivilFromDays(LocalDay(q, now))
                 d     == LocalDay(q, q.scheduled_time_utc)
                 civ   == CivilFromDays(d)
             IN  /\ q.scheduled_time_utc = LocalInstant(q, d)
                 /\ civ.month = IF today.month = 12 THEN 1 ELSE today.month + 1
                 /\ civ.year = IF today.month = 12 THEN today.year + 1 ELSE today.year
                 /\ civ.day = IF today.day <= DaysInMonth(civ.year, civ.month)
                               THEN today.day ELSE 28
                 /\ (today.month = 1 /\ today.day = 31) => (civ.month = 2 /\ civ.day = 28)
      ]_vars

\* C21 witness: a monthly 09:00 reminder was fired on 2024-01-31, its own local
\* day, and its successor is at 09:00 local on 2024-02-28
C21_Witness ==
    \E r, q \in Rows(reminders) :
        /\ r.recurrence_type = "monthly"
        /\ r.recurrence_time = <<"0", "9", ":", "0", "0">>
        /\ r.status = "completed"
        /\ LocalDay(r, r.scheduled_time_utc) = DaysFromCivil(2024, 1, 31)
        /\ LocalDay(r, now) = DaysFromCivil(2024, 1, 31)
        /\ q.id > r.id
        /\ q.status = "pending"
        /\ q.scheduled_time_utc =
              DaysFromCivil(2024, 2, 28) * DAY + 9 * 3600 - UtcOffset(q.user_timezone)


\* a recurrence_time that is a valid HH:MM
ValidTimes == { <<"0", "9", ":", "0", "0">>, <<"2", "3", ":", "3", "0">> }

\* C22: when a pass fires a recurring reminder whose recurrence_time is not a
\* valid HH:MM (absent, non-numeric, wrong number of fields, hour or minute out
\* of range) and no outside call fails, the successor record is created, at
\* 09:00 in the user's zone, and the fired occurrence is completed.
C22_MalformedTimeDefaults ==
    [][ (/\ InitialSendStep
         /\ sent'[1].res = "ok"
         /\ reminders[sent'[1].id].recurrence_type # None
         /\ reminders[sent'[1].id].recurrence_time \notin ValidTimes) =>
            /\ Cardinality(Created) = 1
            /\ \A q \in Created :
                  (q.scheduled_time_utc + UtcOffset(q.user_timezone)) % DAY = 9 * 3600
            /\ reminders'[sent'[1].id].status = "completed"
      ]_vars


\* C23: mark_initial_reminder_sent called twice on an id leaves the table as one
\* call leaves it: the row of that id with initial_reminder_sent = 1 and every
\* other field as it was, every other row as it was; called on an id the table
\* does not hold, it changes no row (the UPDATE matches nothing and raises
\* nothing).
C23_MarkInitialIdempotent ==
    \A i \in 1..(MaxId + 1) :
        LET once  == mark_initial_reminder_sent(reminders, i)
            twice == mark_initial_reminder_sent(once, i)
        IN  /\ twice = once
            /\ Ids(once) = Ids(reminders)
            /\ \A j \in Ids(reminders) \ {i} : once[j] = reminders[j]
            /\ i \in Ids(reminders) =>
                   /\ once[i].initial_reminder_sent = 1
                   /\ [once[i] EXCEPT !.initial_reminder_sent = 0] =
                          [reminders[i] EXCEPT !.initial_reminder_sent = 0]
            /\ i \notin Ids(reminders) => once = reminders

\* C23 witness: a pass has just marked a delivered reminder as sent, in a table
\* that holds another reminder not yet marked and from which an id was deleted
C23_Witness ==
    /\ Len(sent) = 1
    /\ sent[1].kind = "initial"
    /\ sent[1].res = "ok"
    /\ sent[1].id \in Ids(reminders)
    /\ reminders[sent[1].id].recurrence_type = None
    /\ reminders[sent[1].id].initial_reminder_sent = 1
    /\ \E r \in Rows(reminders) : r.initial_reminder_sent = 0
    /\ \E i \in 1..(nextId - 1) : i \notin Ids(reminders)


\* the rows of a list come earliest first, rows of equal time in id order
EarliestFirst(rows) ==
    \A i, j \in DOMAIN rows :
        i < j => \/ rows[i].scheduled_time_utc < rows[j].scheduled_time_utc
                 \/ /\ rows[i].scheduled_time_utc = rows[j].scheduled_time_utc
                    /\ rows[i].id < rows[j].id

C25_FollowUpNotInSamePass ==
    \A i, j \in DOMAIN passLog :
        ~(/\ i < j
          /\ passLog[i].kind = "initial"
          /\ passLog[i].res # "send_failed"
          /\ passLog[j].kind = "follow_up"
          /\ passLog[j].res # "send_failed"
          /\ passLog[j].id = passLog[i].id)


\* C26: the recovery acts only on reminders that were not sent: a pending
\* reminder with initial_reminder_sent = 1 gets no delayed notification and is
\* not completed by the recovery.
C26_RecoveryOnlyMissed ==
    [][ RecoveryStep =>
          \A r \in Rows(reminders) :
             (r.status = "pending" /\ r.initial_reminder_sent = 1) =>
                /\ Notice(r, "delayed") \notin (notified' \ notified)
                /\ reminders'[r.id].status = "pending"
      ]_vars


\* C27: in every reachable state of the table every record with
\* follow_up_sent = 1 also has initial_reminder_sent = 1.
C27_FollowUpImpliesInitial ==
    \A r \in Rows(reminders) : r.follow_up_sent = 1 => r.initial_reminder_sent = 1

\* C27 witness: a negative reply has just reset both flags of one reminder while
\* another reminder, prompted for its follow-up, still has both flags set
C27_Witness ==
    /\ Len(sent) = 1
    /\ sent[1].kind = "reply_no"
    /\ sent[1].id \in Ids(reminders)
    /\ reminders[sent[1].id].initial_reminder_sent = 0
    /\ reminders[sent[1].id].follow_up_sent = 0
    /\ \E r \in Rows(reminders) :
          r.follow_up_sent = 1 /\ r.initial_reminder_sent = 1 /\ r.status = "pending"


\* the series of the recurring reminder r has a pending record in tbl: the
\* occurrence itself or a successor
SeriesAlive(tbl, r) ==
    \E q \in Rows(tbl) :
        /\ q.user_id = r.user_id
        /\ q.task_text = r.task_text
        /\ q.recurrence_type = r.recurrence_type
        /\ q.status = "pending"

\* C28: a recurring series never silently stops: a series that has a pending
\* record keeps one (the occurrence, or a successor) through every step that
\* deletes no record: passes, restarts with recovery, replies and /done.
C28_SeriesNeverStops ==
    [][ \A r \in Rows(reminders) :
          (/\ r.recurrence_type # None
           /\ SeriesAlive(reminders, r)
           /\ Ids(reminders) \subseteq Ids(reminders')) => SeriesAlive(reminders', r)
      ]_vars


\* C29: once a reminder has been deleted, no notification is sent for it and no
\* record is created from it, whatever the interleaving of /delete with a
\* running pass: the pass starts no send for an id the table no longer holds,
\* and a send that creates a successor is the send of a row the table holds.
C29_NothingAfterDelete ==
    [][ /\ InitialSendStarts => Head(pending_reminders').id \in Ids(reminders')
        /\ FollowUpSendStarts => Head(follow_up_reminders').id \in Ids(reminders')
        /\ (InitialSendStep /\ Created # {}) => sent'[1].id \in Ids(reminders)
      ]_vars


\* the step leaves every reminder that user u does not own as it is
OthersUntouched(u) ==
    \A r \in Rows(reminders) :
        r.user_id # u => (r.id \in Ids(reminders') /\ reminders'[r.id] = r)

\* C30: a command or reply changes only reminders of the user who issued it: no
\* /done, /delete, yes/no button or yes/no text of user u changes or deletes a
\* reminder r with r.user_id # u.
C30_OwnedOnly ==
    [][ \A u \in Users :
          /\ \A i \in 1..MaxId :
                (done_command(u, i) \/ delete_command(u, i)) => OthersUntouched(u)
          /\ (/\ reminders' # reminders
              /\ HandlerFrame
              /\ \/ \E a \in {"reminder_yes", "reminder_no"} : yes_no_callback_handler(u, a)
                 \/ \E x \in {"HA", "YO'Q"} : yes_no_handler(u, x)) => OthersUntouched(u)
      ]_vars

====
